---- MODULE Spec2Model ----
(***************************************************************************)
(* Model of src/gbm.py: the callable class GBM_Simulator.                  *)
(*                                                                         *)
(* State: one constructed simulator object (self), the frame a caller      *)
(* holds (data), the output file system (fs) and the outcome of the last   *)
(* operation (res).  Operations: __call__ and the four methods it is made  *)
(* of, each of which a caller can also invoke on its own.                  *)
(*                                                                         *)
(* Calendar dates are day numbers: day 0 is Monday 2023-01-02, so that     *)
(* weekday(d) = d % 7 is Python's Timestamp.weekday() (Monday = 0).        *)
(*                                                                         *)
(* A float cell is the record [nan, m, e, d], standing for the real number *)
(* m * exp(e / d) (or NaN): exp is never evaluated, a cell is positive     *)
(* exactly when m > 0 and equals m exactly when e = 0.                     *)
(***************************************************************************)
EXTENDS Integers, Sequences, FiniteSets

VARIABLES self, data, fs, res

vars == <<self, data, fs, res>>

\* ------------------------------------------------------------- bounds
\* Dates range over the days 0..MaxDay.
MaxDay == 7

\* ------------------------------------------------------------- inputs
Days == 0..MaxDay
TValues == {1}
NValues == {1, 3}
InitPrices == {0, 100}
Mus == {0, 1}
Sigmas == {0 - 1, 0}
NumSims == {0, 1, 2}
Symbols == {"SPY"}
OutputDirs == {"out", "missing"}
\* The directories that exist and are writable.
ExistingDirs == {"out"}
\* The values a normal draw takes, in units of its standard deviation.
ZValues == {0 - 1, 1}

\* ------------------------------------------------------------- Python values
\* An int, and the 1-tuple that a trailing comma makes of it.
PyInt(v) == [type |-> "int", items |-> <<v>>]
PyTuple1(v) == [type |-> "tuple", items |-> <<v>>]

\* a / b: tuples do not support /, and an int does not divide by zero.
truediv(a, b) ==
    IF a.type # "int" \/ b.type # "int"
    THEN [error |-> "TypeError", num |-> 0, den |-> 1]
    ELSE IF b.items[1] = 0
    THEN [error |-> "ZeroDivisionError", num |-> 0, den |-> 1]
    ELSE [error |-> "none", num |-> a.items[1], den |-> b.items[1]]

\* Binding a call: Python raises TypeError when the number of positional
\* arguments (the bound self included) is not the number of parameters.
Binds(nparams, nargs) == nparams = nargs

\* ------------------------------------------------------------- cells
Num(k) == [nan |-> FALSE, m |-> k, e |-> 0, d |-> 1]
NaN == [nan |-> TRUE, m |-> 0, e |-> 0, d |-> 1]
\* pandas' missing date.
NaT == -1
Positive(c) == ~c.nan /\ c.m > 0

\* np.zeros(k)
zeros(k) == [i \in 1..k |-> Num(0)]

\* ------------------------------------------------------------- __init__
__init__(start_date, end_date, output_dir, T, n, symbol, init_price, mu, sigma, num_sims) ==
    [start_date |-> start_date,
     end_date   |-> end_date,
     output_dir |-> output_dir,
     T          |-> PyTuple1(T),
     n          |-> PyTuple1(n),
     symbol     |-> symbol,
     init_price |-> init_price,
     mu         |-> mu,
     sigma      |-> sigma,
     num_sims   |-> num_sims]

\* ------------------------------------------------------------- date index
weekday(d) == d % 7

\* is_on_offset with Saturday taken for a business day.
is_on_offset_sat(d) == weekday(d) < 6

\* BusinessDay.is_on_offset
is_on_offset(d) == weekday(d) < 5

\* BusinessDay.rollforward / rollback: to the next / previous business day.
rollforward(d) == IF is_on_offset(d) THEN d ELSE d + (7 - weekday(d))
rollback(d) == IF is_on_offset(d) THEN d ELSE d - (weekday(d) - 4)

\* next_bday stepping by calendar days.
next_bday_calendar(d) == d + 1

\* d + 1 BusinessDay, for a business day d.
next_bday(d) == IF weekday(d) = 4 THEN d + 3 ELSE d + 1

RECURSIVE generate_range(_, _)
generate_range(cur, end) ==
    IF cur > end THEN <<>> ELSE <<cur>> \o generate_range(next_bday(cur), end)

\* pd.date_range(start, end, freq='B'), both ends inclusive.
date_range(start, end) == generate_range(rollforward(start), rollback(end))

\* ------------------------------------------------------------- frames
\* None, where a frame is expected.
NoFrame == [columns |-> <<>>, date |-> <<>>, open |-> <<>>, close |-> <<>>]

\* _create_empty_frame selecting [['date', 'close']] only.
_create_empty_frame_close_only(obj) ==
    LET dr == date_range(obj.start_date, obj.end_date)
    IN [columns |-> <<"date", "close">>,
        date    |-> dr,
        open    |-> zeros(Len(dr)),
        close   |-> zeros(Len(dr))]

_create_empty_frame(obj) ==
    LET dr == date_range(obj.start_date, obj.end_date)
    IN [columns |-> <<"date", "open", "close">>,
        date    |-> dr,
        open    |-> zeros(Len(dr)),
        close   |-> zeros(Len(dr))]

\* The number of rows of a frame: the length of its index.
nrows(frame) == Len(frame.date)

\* ------------------------------------------------------------- path generator
\* Parameters of _create_geometric_brownian_motion (self, data) and the
\* positional arguments __call__ passes it (the bound self, self, data).
gbm_params == 2
\* The call written as self._create_geometric_brownian_motion(data).
gbm_call_args_data == 1 + 1
gbm_call_args == 1 + 2

\* The step count the generator uses.
gbm_steps(obj, frame) == obj.n

\* Z is the stream of normal draws of the global random source.  The value
\* at step t is init_price * exp(cum[t] / (2 n)), with
\* cum[t] = sum_{k <= t} ((2 mu - sigma^2) T + 2 n sigma Z[k]).
_create_geometric_brownian_motion(obj, frame, Z) ==
    LET T  == obj.T
        n  == gbm_steps(obj, frame)
        dt == truediv(T, n)
    IN IF dt.error # "none"
       THEN [error |-> dt.error, path |-> <<>>, draws |-> 0]
       ELSE LET steps == dt.den
                inc(k) == (2 * obj.mu - obj.sigma * obj.sigma) * dt.num
                          + 2 * steps * obj.sigma * Z[k]
                cum[t \in 0..steps] == IF t = 0 THEN 0 ELSE cum[t - 1] + inc(t)
            IN [error |-> "none",
                path  |-> [t \in 1..steps |->
                             [nan |-> FALSE, m |-> obj.init_price,
                              e |-> cum[t], d |-> 2 * steps]],
                draws |-> steps]

\* ------------------------------------------------------------- append
\* Parameters of _append_path_to_data (self, data, path) and the arguments
\* __call__ passes it (the bound self, data, paths).
append_params == 3
append_call_args == 1 + 2

\* _append_path_to_data assigning the path to data['open'].
_append_path_to_data_open(frame, path) ==
    IF Len(path) = Len(frame.date)
    THEN [error |-> "none", data |-> [frame EXCEPT !.open = path]]
    ELSE [error |-> "ValueError", data |-> frame]

\* data['close'] = path, for an array path: the lengths must agree, except
\* that a frame with an empty index takes its index from a non-empty value
\* and fills its other columns with missing values.
_append_path_to_data(frame, path) ==
    IF Len(path) = nrows(frame)
    THEN [error |-> "none", data |-> [frame EXCEPT !.close = path]]
    ELSE IF nrows(frame) = 0
    THEN [error |-> "none",
          data  |-> [columns |-> frame.columns,
                     date    |-> [i \in 1..Len(path) |-> NaT],
                     open    |-> [i \in 1..Len(path) |-> NaN],
                     close   |-> path]]
    ELSE [error |-> "ValueError", data |-> frame]

\* ------------------------------------------------------------- exporter
\* Parameters of _output_frame_to_dir (self, data) and the arguments
\* __call__ passes it (the bound self, self, data).
output_params == 2
output_call_args == 1 + 2

\* os.path.join(output_dir, f'{symbol}.csv')
output_file(obj) == [dir |-> obj.output_dir, stem |-> obj.symbol, ext |-> "csv"]

\* DataFrame.to_csv(index=False): the header row, then one row per index entry.
to_csv(frame) ==
    [header |-> frame.columns,
     rows   |-> [i \in 1..nrows(frame) |->
                   [j \in 1..Len(frame.columns) |-> frame[frame.columns[j]][i]]]]

_output_frame_to_dir(obj, frame, files) ==
    IF obj.output_dir \notin ExistingDirs
    THEN [error |-> "OSError", fs |-> files, wrote |-> {}]
    ELSE [error |-> "none",
          fs    |-> {f \in files : f.path # output_file(obj)}
                    \cup {[path |-> output_file(obj), content |-> to_csv(frame)]},
          wrote |-> {output_file(obj)}]

\* ------------------------------------------------------------- outcomes
\* The outcome of an operation: the exception it raised (or "none"), the
\* stages of __call__ whose body was entered, the frame __call__ built, the
\* frame handed to the exporter, the path passed or returned, the number of
\* random variates drawn and the files written.
Outcome(op, error, trace, frame, handed, path, draws, wrote) ==
    [op |-> op, error |-> error, trace |-> trace, data |-> frame,
     handed |-> handed, path |-> path, draws |-> draws, wrote |-> wrote]

\* ------------------------------------------------------------- __call__
\* __call__ with the export moved ahead of the path generation.
__call__export_early(obj, files, Z) ==
    LET frame == _create_empty_frame(obj)
        o == _output_frame_to_dir(obj, frame, files)
    IN [res |-> Outcome("__call__", "TypeError",
                        <<"_create_empty_frame", "_output_frame_to_dir">>,
                        frame, frame, <<>>, 0, o.wrote),
        fs  |-> o.fs]

\* The result of one invocation: its outcome and the file system it leaves.
__call__(obj, files, Z) ==
    LET frame == _create_empty_frame(obj)
        t1 == <<"_create_empty_frame">>
        t2 == Append(t1, "_create_geometric_brownian_motion")
        t3 == Append(t2, "_append_path_to_data")
        t4 == Append(t3, "_output_frame_to_dir")
        raise(err, tr, fr, p, drw) ==
            [res |-> Outcome("__call__", err, tr, fr, NoFrame, p, drw, {}),
             fs  |-> files]
    IN IF ~Binds(gbm_params, gbm_call_args)
       THEN raise("TypeError", t1, frame, <<>>, 0)
       ELSE LET g == _create_geometric_brownian_motion(obj, frame, Z)
            IN IF g.error # "none"
               THEN raise(g.error, t2, frame, <<>>, g.draws)
               ELSE IF ~Binds(append_params, append_call_args)
               THEN raise("TypeError", t2, frame, g.path, g.draws)
               ELSE LET a == _append_path_to_data(frame, g.path)
                    IN IF a.error # "none"
                       THEN raise(a.error, t3, a.data, g.path, g.draws)
                       ELSE IF ~Binds(output_params, output_call_args)
                       THEN raise("TypeError", t3, a.data, g.path, g.draws)
                       ELSE LET o == _output_frame_to_dir(obj, a.data, files)
                            IN [res |-> Outcome("__call__", o.error, t4, a.data,
                                                a.data, g.path, g.draws, o.wrote),
                                fs  |-> o.fs]

\* ------------------------------------------------------------- state machine
\* The normal draws an operation of obj can consume.
Draws(obj) == [1..obj.n.items[1] -> ZValues]

\* The arrays a caller passes as a path: as long as the frame it holds, or
\* of the n values the constructor was given.
PathInputs(obj, frame) ==
    {[i \in 1..k |-> Num(99 + i)] : k \in {nrows(frame), obj.n.items[1]}}

Init ==
    /\ \E start_date \in Days, end_date \in Days, output_dir \in OutputDirs,
          T \in TValues, n \in NValues, symbol \in Symbols,
          init_price \in InitPrices, mu \in Mus, sigma \in Sigmas,
          num_sims \in NumSims :
          self = __init__(start_date, end_date, output_dir, T, n, symbol,
                          init_price, mu, sigma, num_sims)
    /\ data = NoFrame
    /\ fs = {}
    /\ res = Outcome("__init__", "none", <<>>, NoFrame, NoFrame, <<>>, 0, {})

\* sim()
Call ==
    \E Z \in Draws(self) :
        LET r == __call__(self, fs, Z)
        IN /\ res' = r.res
           /\ fs' = r.fs
           /\ UNCHANGED <<self, data>>

\* data = sim._create_empty_frame()
CreateEmptyFrame ==
    /\ data' = _create_empty_frame(self)
    /\ res' = Outcome("_create_empty_frame", "none", <<>>, NoFrame, NoFrame, <<>>, 0, {})
    /\ UNCHANGED <<self, fs>>

\* sim._create_geometric_brownian_motion(data)
CreateGeometricBrownianMotion ==
    /\ data # NoFrame
    /\ \E Z \in Draws(self) :
        LET g == _create_geometric_brownian_motion(self, data, Z)
        IN res' = Outcome("_create_geometric_brownian_motion", g.error, <<>>,
                          NoFrame, NoFrame, g.path, g.draws, {})
    /\ UNCHANGED <<self, data, fs>>

\* data = sim._append_path_to_data(data, path)
AppendPathToData ==
    /\ data # NoFrame
    /\ \E path \in PathInputs(self, data) :
        LET a == _append_path_to_data(data, path)
        IN /\ data' = a.data
           /\ res' = Outcome("_append_path_to_data", a.error, <<>>,
                             NoFrame, NoFrame, path, 0, {})
    /\ UNCHANGED <<self, fs>>

\* sim._output_frame_to_dir(data)
OutputFrameToDir ==
    /\ data # NoFrame
    /\ LET o == _output_frame_to_dir(self, data, fs)
       IN /\ fs' = o.fs
          /\ res' = Outcome("_output_frame_to_dir", o.error, <<>>,
                            NoFrame, data, <<>>, 0, o.wrote)
    /\ UNCHANGED <<self, data>>

Next ==
    \/ Call
    \/ CreateEmptyFrame
    \/ CreateGeometricBrownianMotion
    \/ AppendPathToData
    \/ OutputFrameToDir

Spec == Init /\ [][Next]_vars

\* ------------------------------------------------------------- properties
\* The configuration invariant of the specification.
ValidConfig ==
    /\ self.start_date <= self.end_date
    /\ self.init_price > 0
    /\ self.sigma >= 0
    /\ self.num_sims >= 1

\* The Monday-to-Friday dates of [start_date, end_date].
BusinessDays == {d \in self.start_date..self.end_date : d % 7 \in 0..4}

Elems(seq) == {seq[i] : i \in 1..Len(seq)}
StrictlyIncreasing(seq) == \A i \in 1..(Len(seq) - 1) : seq[i] < seq[i + 1]

AllStages ==
    <<"_create_empty_frame", "_create_geometric_brownian_motion",
      "_append_path_to_data", "_output_frame_to_dir">>

FrameColumns == <<"date", "open", "close">>

PathNames == <<"path_1", "path_2">>
SpecColumns(k) == <<"date">> \o SubSeq(PathNames, 1, k) \o <<"average">>

\* C1: for a valid configuration whose range holds a business day (and an
\* existing output directory), an invocation runs the four stages in order
\* and ends without error having written exactly the file {symbol}.csv.
C1_CallWritesOneFile ==
    (/\ res.op = "__call__"
     /\ ValidConfig
     /\ BusinessDays # {}
     /\ self.output_dir \in ExistingDirs)
    => /\ res.error = "none"
       /\ res.trace = AllStages
       /\ res.wrote = {output_file(self)}
       /\ \E f \in fs : f.path = output_file(self)

InvalidConfig ==
    \/ self.end_date < self.start_date
    \/ self.init_price <= 0
    \/ self.sigma < 0
    \/ self.num_sims < 1

C4_NoPartialOutput ==
    [][res'.op = "__call__"
       => /\ res'.error # "none" => (fs' = fs /\ res'.wrote = {})
          /\ fs' # fs => (res'.error = "none" /\ res'.trace = AllStages)
          /\ \A i, j \in 1..Len(res'.trace) :
                res'.trace[i] = res'.trace[j] => i = j]_vars

C4_Witness ==
    /\ res.op = "__call__"
    /\ res.error # "none"
    /\ res.wrote = {}
    /\ self.output_dir \in ExistingDirs
    /\ ValidConfig
    /\ BusinessDays # {}

\* C5: for start_date <= end_date the date column built by
\* _create_empty_frame is strictly increasing and holds exactly the
\* Monday-to-Friday dates of [start_date, end_date].
C5_DateIndexIsBusinessDays ==
    self.start_date <= self.end_date
    => /\ res.op = "_create_empty_frame"
          => (StrictlyIncreasing(data.date) /\ Elems(data.date) = BusinessDays)
       /\ res.op = "__call__"
          => (StrictlyIncreasing(res.data.date)
              /\ Elems(res.data.date) = BusinessDays)

C5_Witness ==
    /\ res.op = "_create_empty_frame"
    /\ self.start_date = 3
    /\ self.end_date = 7
    /\ data.date = <<3, 4, 7>>

C7_EveryCellPositive ==
    (/\ res.handed # NoFrame
     /\ ValidConfig
     /\ nrows(res.handed) > 0
     /\ \A i \in 1..nrows(res.handed) : Positive(res.handed.close[i]))
    => \A i \in 1..nrows(res.handed) : Positive(res.handed.open[i])

C9_ZeroVolatilityDeterministic ==
    (/\ res.op = "_create_geometric_brownian_motion"
     /\ ValidConfig
     /\ self.sigma = 0)
    => /\ res.error = "none"
       /\ \A t \in 1..Len(res.path) :
            /\ res.path[t].m = self.init_price
            /\ res.path[t].e * self.n.items[1]
                 = self.mu * t * self.T.items[1] * res.path[t].d
       /\ (/\ self.start_date = 0
           /\ self.end_date = 4
           /\ self.init_price = 100
           /\ self.mu = 0
           /\ self.num_sims = 1)
          => res.path = [t \in 1..5 |-> Num(100)]

\* C10: for a valid configuration, the step count the path generator uses
\* is the length of the date
\* index of the frame it is given, so that it returns, without error, a
\* path with one value per row of the frame.
C10_StepsAreFrameRows ==
    (res.op = "_create_geometric_brownian_motion" /\ ValidConfig)
    => /\ gbm_steps(self, data) = PyInt(nrows(data))
       /\ res.error = "none"
       /\ Len(res.path) = nrows(data)

====
